---- MODULE Spec2Model ----
(***************************************************************************)
(* Model of pieces.py: the movement geometry of the six chess pieces       *)
(* (get_reachable_cells), the legality filter (Piece.get_valid_cells) and  *)
(* the evaluation heuristic (Piece.evaluate), over the board adapter the   *)
(* pieces consume (get_cell, set_cell, cell_is_valid_and_empty,            *)
(* piece_can_enter_cell, piece_can_hit_on_cell, is_king_check_cached).     *)
(***************************************************************************)
EXTENDS Integers, Sequences, FiniteSets, TLC

(***************************************************************************)
(* Pieces.  Every piece is constructed with a colour and a kind (its       *)
(* class); piece identities are 1..12, one piece of each kind and colour,  *)
(* and 13, 14 for a white and a black object of the base class Piece,      *)
(* which is none of the six kinds.                                         *)
(* None (Python's None) is 0 for a piece and <<>> for a cell.              *)
(***************************************************************************)
None == 0

NoCell == << >>

Pieces == 1..14

Kinds == <<"King", "Queen", "Rook", "Bishop", "Knight", "Pawn">>

KindOf(p) == IF p > 12 THEN "Piece" ELSE Kinds[((p - 1) % 6) + 1]

is_white(p) == p <= 6 \/ p = 13

\* the piece of the same kind and the opposite colour
Twin(p) == IF p > 12 THEN 27 - p ELSE IF p <= 6 THEN p + 6 ELSE p - 6

KingOf(white) == IF white THEN 1 ELSE 7

Rows == 0..7

Cells == Rows \X Rows

(***************************************************************************)
(* Board adapter.  A position st is a record [board, cell]: board maps     *)
(* every cell to its occupant (a piece or None), cell maps every piece to  *)
(* its tracked position (self.cell).                                       *)
(***************************************************************************)
cell_is_valid(c) == c[1] \in Rows /\ c[2] \in Rows

get_cell(st, c) == st.board[c]

set_cell(st, c, piece) ==
    [board |-> [st.board EXCEPT ![c] = piece],
     cell  |-> IF piece # None THEN [st.cell EXCEPT ![piece] = c] ELSE st.cell]

cell_is_valid_and_empty(st, c) == cell_is_valid(c) /\ st.board[c] = None

piece_can_enter_cell(st, piece, c) ==
    /\ cell_is_valid(c)
    /\ \/ st.board[c] = None
       \/ is_white(st.board[c]) # is_white(piece)

piece_can_hit_on_cell(st, piece, c) ==
    /\ cell_is_valid(c)
    /\ st.board[c] # None
    /\ is_white(st.board[c]) # is_white(piece)

can_enter_cell_EmptyOnly(st, self, c) == cell_is_valid_and_empty(st, c)

can_enter_cell(st, self, c) == piece_can_enter_cell(st, self, c)

can_hit_on_cell_AnyPiece(st, self, c) == cell_is_valid(c) /\ st.board[c] # None

can_hit_on_cell(st, self, c) == piece_can_hit_on_cell(st, self, c)

(***************************************************************************)
(* Movement geometry.  Lists are sequences, in the order the code appends. *)
(***************************************************************************)
\* "if cond: reachable_cells.append(c)"
AppendIf(cond, c) == IF cond THEN <<c>> ELSE << >>

\* a slide loop meets an occupied cell: "elif self.can_hit_on_cell(c): append; break"
\* and "else: break"
Blocked_AnyColour(st, self, c) == <<c>>

Blocked(st, self, c) == AppendIf(can_hit_on_cell(st, self, c), c)

\* one slide loop whose loop variable is the row: "for r in range(row+1, 8)"
\* (dr = 1) or "for r in reversed(range(0, row))" (dr = -1); the column
\* moves by dc each step and is not bounded by the loop.
RECURSIVE SlideRows(_, _, _, _, _, _)
SlideRows(st, self, r, c, dr, dc) ==
    IF r \notin Rows THEN << >>
    ELSE IF cell_is_valid_and_empty(st, <<r, c>>)
         THEN <<(<<r, c>>)>> \o SlideRows(st, self, r + dr, c + dc, dr, dc)
         ELSE Blocked(st, self, <<r, c>>)

\* one slide loop whose loop variable is the column, the row fixed
RECURSIVE SlideCols(_, _, _, _, _)
SlideCols(st, self, r, c, dc) ==
    IF c \notin Rows THEN << >>
    ELSE IF cell_is_valid_and_empty(st, <<r, c>>)
         THEN <<(<<r, c>>)>> \o SlideCols(st, self, r, c + dc, dc)
         ELSE Blocked(st, self, <<r, c>>)

\* the moves straight ahead: "if cell_is_valid_and_empty(one): append(one);
\* if row == start_row and cell_is_valid_and_empty(two): append(two)"
PawnAhead_Jump(st, one, on_start_row, two) ==
    AppendIf(cell_is_valid_and_empty(st, one), one)
    \o AppendIf(on_start_row /\ cell_is_valid_and_empty(st, two), two)

PawnAhead(st, one, on_start_row, two) ==
    IF cell_is_valid_and_empty(st, one)
    THEN <<one>> \o AppendIf(on_start_row /\ cell_is_valid_and_empty(st, two), two)
    ELSE << >>

Pawn_get_reachable_cells(st, self) ==
    LET row == st.cell[self][1]
        col == st.cell[self][2]
        white_part ==
            IF is_white(self)
            THEN PawnAhead(st, <<row + 1, col>>, row = 1, <<3, col>>)
                 \o AppendIf(can_hit_on_cell(st, self, <<row + 1, col + 1>>),
                             <<row + 1, col + 1>>)
                 \o AppendIf(can_hit_on_cell(st, self, <<row + 1, col - 1>>),
                             <<row + 1, col - 1>>)
            ELSE << >>
        black_part ==
            IF ~is_white(self)
            THEN PawnAhead(st, <<row - 1, col>>, row = 6, <<4, col>>)
                 \o AppendIf(can_hit_on_cell(st, self, <<row - 1, col + 1>>),
                             <<row - 1, col + 1>>)
                 \o AppendIf(can_hit_on_cell(st, self, <<row - 1, col - 1>>),
                             <<row - 1, col - 1>>)
            ELSE << >>
    IN  white_part \o black_part

Rook_get_reachable_cells(st, self) ==
    LET row == st.cell[self][1]
        col == st.cell[self][2]
    IN  SlideRows(st, self, row + 1, col, 1, 0)
        \o SlideRows(st, self, row - 1, col, -1, 0)
        \o SlideCols(st, self, row, col - 1, -1)
        \o SlideCols(st, self, row, col + 1, 1)

KnightOffsets ==
    << <<-2, 1>>, <<-2, -1>>, <<2, 1>>, <<2, -1>>,
       <<1, -2>>, <<-1, -2>>, <<1, 2>>, <<-1, 2>> >>

RECURSIVE EnterEach(_, _, _, _)
\* "if self.can_enter_cell(c): reachable_cells.append(c)" for each offset in turn
EnterEach(st, self, offsets, i) ==
    IF i > Len(offsets) THEN << >>
    ELSE LET c == <<st.cell[self][1] + offsets[i][1], st.cell[self][2] + offsets[i][2]>>
         IN  AppendIf(can_enter_cell(st, self, c), c) \o EnterEach(st, self, offsets, i + 1)

Knight_get_reachable_cells(st, self) == EnterEach(st, self, KnightOffsets, 1)

Bishop_get_reachable_cells(st, self) ==
    LET row == st.cell[self][1]
        col == st.cell[self][2]
    IN  SlideRows(st, self, row + 1, col + 1, 1, 1)
        \o SlideRows(st, self, row - 1, col + 1, -1, 1)
        \o SlideRows(st, self, row + 1, col - 1, 1, -1)
        \o SlideRows(st, self, row - 1, col - 1, -1, -1)

Queen_RookOnly(st, self) == Rook_get_reachable_cells(st, self)

Queen_get_reachable_cells(st, self) ==
    LET row == st.cell[self][1]
        col == st.cell[self][2]
    IN  SlideRows(st, self, row + 1, col, 1, 0)
        \o SlideRows(st, self, row - 1, col, -1, 0)
        \o SlideCols(st, self, row, col - 1, -1)
        \o SlideCols(st, self, row, col + 1, 1)
        \o SlideRows(st, self, row + 1, col + 1, 1, 1)
        \o SlideRows(st, self, row - 1, col + 1, -1, 1)
        \o SlideRows(st, self, row + 1, col - 1, 1, -1)
        \o SlideRows(st, self, row - 1, col - 1, -1, -1)

\* "for i_r in range(-1,2): for i_c in range(-1,2)", (0,0) skipped
KingOffsets ==
    << <<-1, -1>>, <<-1, 0>>, <<-1, 1>>, <<0, -1>>,
       <<0, 1>>, <<1, -1>>, <<1, 0>>, <<1, 1>> >>

King_get_reachable_cells(st, self) == EnterEach(st, self, KingOffsets, 1)

\* the method the piece's class defines
get_reachable_cells(st, self) ==
    CASE KindOf(self) = "Pawn"   -> Pawn_get_reachable_cells(st, self)
      [] KindOf(self) = "Rook"   -> Rook_get_reachable_cells(st, self)
      [] KindOf(self) = "Knight" -> Knight_get_reachable_cells(st, self)
      [] KindOf(self) = "Bishop" -> Bishop_get_reachable_cells(st, self)
      [] KindOf(self) = "Queen"  -> Queen_get_reachable_cells(st, self)
      [] KindOf(self) = "King"   -> King_get_reachable_cells(st, self)

\* "row, col = self.cell" while self.cell is None: the unpacking raises
\* TypeError, the first statement of every get_reachable_cells to touch
\* anything; the position is left as it was
unpack_None_Quiet(st) == [raised |-> "", st |-> st]

unpack_None(st) == [raised |-> "TypeError", st |-> st]

\* the call self.get_reachable_cells(): the list returned or the exception
\* raised (the base class Piece defines no get_reachable_cells)
call_get_reachable_cells(st, self) ==
    IF KindOf(self) = "Piece"
    THEN [cells |-> << >>, raised |-> "AttributeError", st |-> st]
    ELSE IF st.cell[self] = NoCell
    THEN [cells |-> << >>, raised |-> unpack_None(st).raised, st |-> unpack_None(st).st]
    ELSE [cells |-> get_reachable_cells(st, self), raised |-> "", st |-> st]

InSeq(x, s) == \E i \in 1..Len(s) : s[i] = x

\* the pieces of one colour standing on the board
OnBoard(st, white) ==
    {q \in {st.board[c] : c \in Cells} : q # None /\ is_white(q) = white}

\* check status of the king of the given colour, from the occupancy at call time:
\* some enemy piece on the board reaches the king's tracked cell
is_king_check_cached(st, white) ==
    \E q \in OnBoard(st, ~white) :
        InSeq(st.cell[KingOf(white)], get_reachable_cells(st, q))

(***************************************************************************)
(* Legality filter: Piece.get_valid_cells.                                 *)
(***************************************************************************)
\* "enemy = self.board.get_cell(cell); self.board.set_cell(cell, self)"
SimPlace(st, self, c) == set_cell(st, c, self)

\* "valid_cells.append(cell)"
Keep_Front(valid_cells, c) == <<c>> \o valid_cells

Keep(valid_cells, c) == Append(valid_cells, c)

SimRestore_TargetOnly(st, self, og_cell, c, enemy) == set_cell(st, c, enemy)

\* "self.board.set_cell(og_cell, self)"
RestoreMover_Skip(st, self, og_cell) == st

RestoreMover(st, self, og_cell) == set_cell(st, og_cell, self)

\* "self.board.set_cell(cell, enemy)"
RestoreEnemy_Skip(st, c, enemy) == st

RestoreEnemy(st, c, enemy) == set_cell(st, c, enemy)

\* "self.board.set_cell(og_cell, self); self.board.set_cell(cell, enemy)"
SimRestore(st, self, og_cell, c, enemy) ==
    RestoreEnemy(RestoreMover(st, self, og_cell), c, enemy)

\* the loop over reachable_cells, from candidate i on; st is the position the
\* iteration starts from, valid_cells the list built so far
RECURSIVE ValidLoop(_, _, _, _, _, _)
ValidLoop(st, self, og_cell, reachable_cells, i, valid_cells) ==
    IF i > Len(reachable_cells)
    THEN [valid_cells |-> valid_cells, st |-> st, raised |-> ""]
    ELSE LET c        == reachable_cells[i]
             enemy    == get_cell(st, c)
             placed   == SimPlace(st, self, c)
             restored == SimRestore(placed, self, og_cell, c, enemy)
         IN  IF ~is_king_check_cached(placed, is_white(self))
             THEN ValidLoop(restored, self, og_cell, reachable_cells, i + 1,
                            Keep(valid_cells, c))
             ELSE ValidLoop(restored, self, og_cell, reachable_cells, i + 1,
                            valid_cells)

\* the whole call: the list returned or the exception raised, and the
\* position it leaves behind
get_valid_cells(st, self) ==
    LET reach == call_get_reachable_cells(st, self) IN
    IF reach.raised # ""
    THEN [valid_cells |-> << >>, st |-> reach.st, raised |-> reach.raised]
    ELSE ValidLoop(st, self, st.cell[self], reach.cells, 1, << >>)

(***************************************************************************)
(* Python's numbers.  A score is an int or a float (IEEE-754 double); both *)
(* are held exactly, as a natural number of units of 2^-56, written in     *)
(* limbs of 14 bits, least significant first, without leading zero limbs.  *)
(* Every double the evaluation can produce is a whole number of such       *)
(* units (the smallest addend, 0.1, has its last mantissa bit at 2^-56).   *)
(***************************************************************************)
LimbBits == 14

Limb == 16384

RECURSIVE Pow2(_)
Pow2(k) == IF k = 0 THEN 1 ELSE 2 * Pow2(k - 1)

Digit(a, i) == IF i <= Len(a) THEN a[i] ELSE 0

RECURSIVE BFromInt(_)
BFromInt(n) == IF n = 0 THEN << >> ELSE <<n % Limb>> \o BFromInt(n \div Limb)

RECURSIVE BNorm(_)
BNorm(a) == IF a # << >> /\ a[Len(a)] = 0 THEN BNorm(SubSeq(a, 1, Len(a) - 1)) ELSE a

RECURSIVE AddFrom(_, _, _, _)
AddFrom(a, b, i, carry) ==
    IF i > Len(a) /\ i > Len(b)
    THEN (IF carry > 0 THEN <<carry>> ELSE << >>)
    ELSE LET s == Digit(a, i) + Digit(b, i) + carry
         IN  <<s % Limb>> \o AddFrom(a, b, i + 1, s \div Limb)

BAdd(a, b) == AddFrom(a, b, 1, 0)

RECURSIVE MulFrom(_, _, _, _)
MulFrom(a, m, i, carry) ==
    IF i > Len(a) THEN BFromInt(carry)
    ELSE LET s == a[i] * m + carry
         IN  <<s % Limb>> \o MulFrom(a, m, i + 1, s \div Limb)

\* a times a number below 2^14
BMul1(a, m) == IF m = 0 THEN << >> ELSE MulFrom(a, m, 1, 0)

Zeros(w) == [i \in 1..w |-> 0]

RECURSIVE MulLimbs(_, _, _)
MulLimbs(a, b, j) ==
    IF j > Len(b) THEN << >>
    ELSE LET row == BMul1(a, b[j])
         IN  BAdd(IF row = << >> THEN << >> ELSE Zeros(j - 1) \o row,
                  MulLimbs(a, b, j + 1))

BMul(a, b) == MulLimbs(a, b, 1)

\* quotient and remainder of a by a number below 2^14, from limb i down
RECURSIVE DivFrom(_, _, _, _)
DivFrom(a, d, i, r) ==
    IF i = 0 THEN [q |-> << >>, r |-> r]
    ELSE LET cur  == r * Limb + a[i]
             rest == DivFrom(a, d, i - 1, cur % d)
         IN  [q |-> Append(rest.q, cur \div d), r |-> rest.r]

BDivSmall(a, d) ==
    LET res == DivFrom(a, d, Len(a), 0) IN [q |-> BNorm(res.q), r |-> res.r]

BShl(a, k) ==
    IF a = << >> THEN << >>
    ELSE Zeros(k \div LimbBits) \o BMul1(a, Pow2(k % LimbBits))

BShr(a, k) ==
    LET w == k \div LimbBits
    IN  IF w >= Len(a) THEN << >>
        ELSE BDivSmall(SubSeq(a, w + 1, Len(a)), Pow2(k % LimbBits)).q

RECURSIVE IntBitLen(_)
IntBitLen(n) == IF n = 0 THEN 0 ELSE 1 + IntBitLen(n \div 2)

BitLen(a) ==
    IF a = << >> THEN 0 ELSE LimbBits * (Len(a) - 1) + IntBitLen(a[Len(a)])

\* bit i of a, bit 0 the least significant
Bit(a, i) == (Digit(a, (i \div LimbBits) + 1) \div Pow2(i % LimbBits)) % 2

\* whether some bit of a below bit i is set
LowNonZero(a, i) ==
    \/ \E j \in 1..(i \div LimbBits) : Digit(a, j) # 0
    \/ Digit(a, (i \div LimbBits) + 1) % Pow2(i % LimbBits) # 0

\* round to nearest, ties to even, to the 53 significant bits of a double
Round53(a) ==
    LET len == BitLen(a) IN
    IF len <= 53 THEN a
    ELSE LET sh == len - 53
             q  == BShr(a, sh)
             up == /\ Bit(a, sh - 1) = 1
                   /\ (LowNonZero(a, sh - 1) \/ Bit(q, 0) = 1)
         IN  BShl(IF up THEN BAdd(q, <<1>>) ELSE q, sh)

\* an int as a score
FromInt(n) == BShl(BFromInt(n), 56)

\* float + float
FAdd(x, y) == Round53(BAdd(x, y))

\* int / int (true division, correctly rounded), for 0 or a quotient of at
\* least 1/16 and a divisor below 2^14; also a decimal literal n/d
FDiv(n, d) ==
    LET dv == BDivSmall(BShl(BFromInt(n), 64), d)
        q2 == BAdd(BShl(dv.q, 1), IF dv.r # 0 THEN <<1>> ELSE << >>)
    IN  BShr(Round53(q2), 9)

\* float * float, for a product of at least 1/2
FMul(x, y) == BShr(Round53(BMul(x, y)), 56)

(***************************************************************************)
(* Evaluation heuristic: Piece.evaluate.                                   *)
(***************************************************************************)
base_points_KingTwelve(kind) ==
    CASE kind = "Pawn" -> 1
      [] kind = "Knight" \/ kind = "Bishop" -> 3
      [] kind = "Rook" -> 5
      [] kind = "Queen" -> 9
      [] kind = "King" -> 12
      [] OTHER -> 0

\* the isinstance chain on self
base_points(kind) ==
    CASE kind = "Pawn" -> 1
      [] kind = "Knight" \/ kind = "Bishop" -> 3
      [] kind = "Rook" -> 5
      [] kind = "Queen" -> 9
      [] kind = "King" -> 999999
      [] OTHER -> 0

enemy_points_Material(occupant) ==
    IF occupant = None THEN 0 ELSE base_points(KindOf(occupant))

\* the isinstance chain on the occupant of a valid cell
enemy_points(occupant) ==
    IF occupant = None THEN 0
    ELSE CASE KindOf(occupant) = "Pawn" -> 1
           [] KindOf(occupant) = "Knight" \/ KindOf(occupant) = "Bishop" -> 3
           [] KindOf(occupant) = "Rook" -> 5
           [] KindOf(occupant) = "Queen" -> 9
           [] KindOf(occupant) = "King" -> 12
           [] OTHER -> 0

\* "for cell in valid_cells: ... score += enemy_base_pts / 10", from cell i on
\* (the comparison only makes TLC compute each sum before the next iteration)
RECURSIVE TacticalLoop(_, _, _, _)
TacticalLoop(st, valid_cells, i, score) ==
    IF i > Len(valid_cells) THEN score
    ELSE LET occupant == get_cell(st, valid_cells[i])
             next     == FAdd(score, FDiv(enemy_points(occupant), 10))
         IN  IF next = score
             THEN TacticalLoop(st, valid_cells, i + 1, score)
             ELSE TacticalLoop(st, valid_cells, i + 1, next)

position_factor_KingToo(kind, row, col) ==
    IF (row = 0 \/ row = 7) \/ (col = 0 \/ col = 7) THEN 91
    ELSE IF (row = 1 \/ row = 6) \/ (col = 1 \/ col = 6) THEN 94
    ELSE IF (row = 2 \/ row = 5) \/ (col = 2 \/ col = 5) THEN 97
    ELSE 100

\* position_factor, in hundredths (100 is the int 1)
position_factor(kind, row, col) ==
    IF kind # "King"
    THEN IF (row = 0 \/ row = 7) \/ (col = 0 \/ col = 7) THEN 91
         ELSE IF (row = 1 \/ row = 6) \/ (col = 1 \/ col = 6) THEN 94
         ELSE IF (row = 2 \/ row = 5) \/ (col = 2 \/ col = 5) THEN 97
         ELSE IF (row = 3 \/ row = 4) /\ (col = 3 \/ col = 4) THEN 100
         ELSE 100
    ELSE 100

\* "score *= position_factor"
Times(score, factor) == IF factor = 100 THEN score ELSE FMul(score, FDiv(factor, 100))

\* "elif base_pts == 0: return 0", the last branch of the isinstance chain
unknown_kind_Never(base_pts) == FALSE

unknown_kind(base_pts) == base_pts = 0

\* the score returned (or the exception raised), the value of score before
\* "score *= position_factor", the number of calls the body made on the
\* piece and the board (get_valid_cells, get_cell), and the position the call
\* leaves behind
evaluate(st, self, ai_mode) ==
    LET base_pts == base_points(KindOf(self)) IN
    IF unknown_kind(base_pts)
    THEN [score |-> FromInt(0), pre |-> FromInt(0), st |-> st, raised |-> "",
          calls |-> 0]
    ELSE IF ~ai_mode
    THEN [score |-> FromInt(base_pts), pre |-> FromInt(base_pts), st |-> st,
          raised |-> "", calls |-> 0]
    ELSE LET vc  == get_valid_cells(st, self)
             sum == TacticalLoop(vc.st, vc.valid_cells, 1, FromInt(base_pts))
             at  == vc.st.cell[self]
         IN  IF vc.raised # ""
             THEN [score |-> << >>, pre |-> << >>, st |-> vc.st,
                   raised |-> vc.raised, calls |-> 1]
             ELSE [score |-> Times(sum, position_factor(KindOf(self), at[1], at[2])),
                   pre   |-> sum,
                   st    |-> vc.st,
                   raised |-> "",
                   calls |-> 1 + Len(vc.valid_cells)]

(***************************************************************************)
(* The state machine.  The pieces are constructed with no position; the    *)
(* external setup places them on the board; the search layer then queries  *)
(* reachable cells, valid cells and scores.                                *)
(***************************************************************************)
VARIABLES
    board,  \* the board's cells: occupant of every cell
    cell,   \* self.cell of every piece
    ret,    \* the last call: how it ended (op: the method that returned, or
            \* "raised"), the method called, receiver, arguments, the position
            \* it started from, what it returned or raised and, for evaluate,
            \* the score before the position factor and the calls it made
    frame,  \* for each caller, the get_valid_cells call it runs step by step:
            \* where it stands and its local variables
    run     \* the position before the first of these calls, and whether a
            \* call started while another was under way

vars == <<board, cell, ret, frame, run>>

Now == [board |-> board, cell |-> cell]

\* at most this many pieces other than the two kings are set up on the board
MaxOthers == 2

\* a piece without a position is queried only while at most this many pieces
\* stand on the board
MaxBoardUnset == 1

\* the cells the setup may put each piece on
SetupCells(p) ==
    CASE p = 1  -> {<<0, 0>>, <<4, 4>>}
      [] p = 2  -> {<<2, 0>>, <<4, 3>>}
      [] p = 3  -> {<<0, 0>>, <<0, 3>>}
      [] p = 4  -> {<<4, 4>>, <<5, 4>>}
      [] p = 5  -> {<<2, 2>>, <<5, 2>>}
      [] p = 6  -> {<<1, 3>>, <<4, 3>>}
      [] p = 7  -> {<<3, 3>>}
      [] p = 8  -> {<<5, 5>>, <<7, 1>>}
      [] p = 9  -> {<<4, 0>>, <<0, 5>>}
      [] p = 10 -> {<<2, 3>>, <<1, 1>>}
      [] p = 11 -> {<<2, 4>>, <<5, 3>>}
      [] p = 12 -> {<<0, 5>>, <<6, 3>>}
      [] OTHER  -> {}

Placed == {p \in Pieces : cell[p] # NoCell}

\* the piece may be queried now: it stands on the board or few pieces do
Queried(p) == cell[p] # NoCell \/ Cardinality(Placed) <= MaxBoardUnset

NoRet ==
    [op |-> "none", call |-> "none", self |-> None, ai_mode |-> FALSE,
     before |-> << >>, cells |-> << >>, score |-> << >>, pre |-> << >>,
     raised |-> "", calls |-> 0]

\* the record of a call that returned; of one that raised
Returned(call, p, ai_mode) ==
    [NoRet EXCEPT !.op = call, !.call = call, !.self = p, !.ai_mode = ai_mode,
                  !.before = Now]

Raised(call, p, ai_mode, raised) ==
    [NoRet EXCEPT !.op = "raised", !.call = call, !.self = p, !.ai_mode = ai_mode,
                  !.before = Now, !.raised = raised]

\* the callers that may run get_valid_cells on the one board
Callers == {"a", "b"}

IdleFrame ==
    [pc |-> "idle", self |-> None, before |-> << >>, og_cell |-> NoCell,
     reachable_cells |-> << >>, i |-> 0, enemy |-> None, valid_cells |-> << >>,
     checks |-> 0]

NoRun == [before |-> << >>, overlapped |-> FALSE]

Init ==
    /\ board = [c \in Cells |-> None]
    /\ cell = [p \in Pieces |-> NoCell]
    /\ ret = NoRet
    /\ frame = [t \in Callers |-> IdleFrame]
    /\ run = NoRun

\* external setup: board.set_cell(c, p) for a piece not yet on the board
Place(p, c) ==
    /\ ret.op = "none"
    /\ cell[p] = NoCell
    /\ board[c] = None
    /\ KindOf(p) = "King" \/ Cardinality({q \in Placed : KindOf(q) # "King"}) < MaxOthers
    /\ \E r \in {set_cell(Now, c, p)} :
        /\ board' = r.board
        /\ cell' = r.cell
    /\ ret' = NoRet
    /\ UNCHANGED <<frame, run>>

\* piece.get_reachable_cells()
Reachable(p) ==
    /\ ret.op = "none"
    /\ Queried(p)
    /\ \E r \in {call_get_reachable_cells(Now, p)} :
        /\ board' = r.st.board
        /\ cell' = r.st.cell
        /\ ret' = IF r.raised # "" THEN Raised("reachable", p, FALSE, r.raised)
                  ELSE [Returned("reachable", p, FALSE) EXCEPT !.cells = r.cells]
    /\ UNCHANGED <<frame, run>>

\* piece.get_valid_cells(); the check query needs the mover's own king on the board
Valid(p) ==
    /\ ret.op = "none"
    /\ Queried(p)
    /\ cell[p] # NoCell => cell[KingOf(is_white(p))] # NoCell
    /\ \E r \in {get_valid_cells(Now, p)} :
        /\ board' = r.st.board
        /\ cell' = r.st.cell
        /\ ret' = IF r.raised # "" THEN Raised("valid", p, FALSE, r.raised)
                  ELSE [Returned("valid", p, FALSE) EXCEPT !.cells = r.valid_cells]
    /\ UNCHANGED <<frame, run>>

\* piece.evaluate(ai_mode)
Evaluate(p, ai_mode) ==
    /\ ret.op = "none"
    /\ Queried(p)
    /\ (ai_mode /\ cell[p] # NoCell) => cell[KingOf(is_white(p))] # NoCell
    /\ \E r \in {evaluate(Now, p, ai_mode)} :
        /\ board' = r.st.board
        /\ cell' = r.st.cell
        /\ ret' = IF r.raised # "" THEN Raised("evaluate", p, ai_mode, r.raised)
                  ELSE [Returned("evaluate", p, ai_mode)
                            EXCEPT !.score = r.score, !.pre = r.pre, !.calls = r.calls]
    /\ UNCHANGED <<frame, run>>

\* the caller takes the result of the call; the next call starts from the
\* position the call left behind
Discard ==
    /\ ret.op # "none"
    /\ ret' = NoRet
    /\ UNCHANGED <<board, cell, frame, run>>

Next ==
    \/ \E p \in Pieces : \E c \in SetupCells(p) : Place(p, c)
    \/ \E p \in Pieces : Reachable(p)
    \/ \E p \in Pieces : Valid(p)
    \/ \E p \in Pieces : \E ai_mode \in BOOLEAN : Evaluate(p, ai_mode)
    \/ Discard

Spec == Init /\ [][Next]_vars

(***************************************************************************)
(* get_valid_cells step by step.  Each caller runs one call; a step is one *)
(* call on the board adapter (get_cell, set_cell, is_king_check_cached)    *)
(* with the statements around it, so the calls of two callers interleave   *)
(* between adapter calls.                                                  *)
(***************************************************************************)
\* the positions the external setup builds for these runs: piece -> cell
StepBoards ==
    { (1 :> <<0, 0>>) @@ (2 :> <<2, 0>>) @@ (9 :> <<4, 0>>),
      (1 :> <<0, 0>>) @@ (5 :> <<2, 2>>) @@ (6 :> <<1, 3>>) @@ (11 :> <<2, 4>>),
      (1 :> <<0, 0>>) @@ (7 :> <<3, 3>>) @@ (10 :> <<1, 1>>) @@ (6 :> <<1, 3>>) }

\* external setup: board.set_cell(pos[p], p) for every piece of the position
SetUp(pos) ==
    /\ Placed = {}
    /\ board' = [c \in Cells |->
                    IF \E p \in DOMAIN pos : pos[p] = c
                    THEN CHOOSE p \in DOMAIN pos : pos[p] = c
                    ELSE None]
    /\ cell' = [p \in Pieces |-> IF p \in DOMAIN pos THEN pos[p] ELSE NoCell]
    /\ UNCHANGED <<ret, frame, run>>

Running(t) == frame[t].pc \notin {"idle", "done"}

\* the candidate the caller's loop is at
Candidate(t) == frame[t].reachable_cells[frame[t].i]

\* "valid_cells = []; og_cell = self.cell;
\*  reachable_cells = self.get_reachable_cells()"
Call(t, p) ==
    /\ frame[t].pc = "idle"
    /\ cell[p] # NoCell
    /\ cell[KingOf(is_white(p))] # NoCell
    /\ \A u \in Callers : frame[u].self # p
    /\ frame' = [frame EXCEPT ![t] =
                    [IdleFrame EXCEPT !.pc = "loop", !.self = p, !.before = Now,
                                      !.og_cell = cell[p],
                                      !.reachable_cells = get_reachable_cells(Now, p),
                                      !.i = 1]]
    /\ run' = [before     |-> IF run.before = << >> THEN Now ELSE run.before,
               overlapped |-> run.overlapped \/ \E u \in Callers : Running(u)]
    /\ UNCHANGED <<board, cell, ret>>

\* "for cell in reachable_cells: enemy = self.board.get_cell(cell)"
NextCandidate(t) ==
    /\ frame[t].pc = "loop"
    /\ frame[t].i <= Len(frame[t].reachable_cells)
    /\ frame' = [frame EXCEPT ![t].enemy = get_cell(Now, Candidate(t)),
                              ![t].pc = "place"]
    /\ UNCHANGED <<board, cell, ret, run>>

\* "self.board.set_cell(cell, self)"
PlaceMover(t) ==
    /\ frame[t].pc = "place"
    /\ \E r \in {SimPlace(Now, frame[t].self, Candidate(t))} :
        /\ board' = r.board
        /\ cell' = r.cell
    /\ frame' = [frame EXCEPT ![t].pc = "check"]
    /\ UNCHANGED <<ret, run>>

\* "if not self.board.is_king_check_cached(self.white): valid_cells.append(cell)"
QueryCheck(t) ==
    /\ frame[t].pc = "check"
    /\ frame' = [frame EXCEPT
                    ![t].valid_cells =
                        IF ~is_king_check_cached(Now, is_white(frame[t].self))
                        THEN Keep(frame[t].valid_cells, Candidate(t))
                        ELSE frame[t].valid_cells,
                    ![t].checks = frame[t].checks + 1,
                    ![t].pc = "restore_mover"]
    /\ UNCHANGED <<board, cell, ret, run>>

\* "self.board.set_cell(og_cell, self)"
PutMoverBack(t) ==
    /\ frame[t].pc = "restore_mover"
    /\ \E r \in {RestoreMover(Now, frame[t].self, frame[t].og_cell)} :
        /\ board' = r.board
        /\ cell' = r.cell
    /\ frame' = [frame EXCEPT ![t].pc = "restore_enemy"]
    /\ UNCHANGED <<ret, run>>

\* "self.board.set_cell(cell, enemy)", and on to the next candidate
PutEnemyBack(t) ==
    /\ frame[t].pc = "restore_enemy"
    /\ \E r \in {RestoreEnemy(Now, Candidate(t), frame[t].enemy)} :
        /\ board' = r.board
        /\ cell' = r.cell
    /\ frame' = [frame EXCEPT ![t].i = frame[t].i + 1, ![t].pc = "loop"]
    /\ UNCHANGED <<ret, run>>

\* "return valid_cells"
Return(t) ==
    /\ frame[t].pc = "loop"
    /\ frame[t].i > Len(frame[t].reachable_cells)
    /\ frame' = [frame EXCEPT ![t].pc = "done"]
    /\ UNCHANGED <<board, cell, ret, run>>

NextSteps ==
    \/ \E pos \in StepBoards : SetUp(pos)
    \/ \E t \in Callers : \E p \in Pieces : Call(t, p)
    \/ \E t \in Callers : NextCandidate(t)
    \/ \E t \in Callers : PlaceMover(t)
    \/ \E t \in Callers : QueryCheck(t)
    \/ \E t \in Callers : PutMoverBack(t)
    \/ \E t \in Callers : PutEnemyBack(t)
    \/ \E t \in Callers : Return(t)

SpecSteps == Init /\ [][NextSteps]_vars

(***************************************************************************)
(* Helpers of the properties.                                              *)
(***************************************************************************)
SeqSet(s) == {s[i] : i \in 1..Len(s)}

Enemy(st, self, c) == st.board[c] # None /\ is_white(st.board[c]) # is_white(self)

\* s is t with some elements left out, the order kept
RECURSIVE SubseqFrom(_, _, _, _)
SubseqFrom(s, t, i, j) ==
    IF i > Len(s) THEN TRUE
    ELSE IF j > Len(t) THEN FALSE
    ELSE IF s[i] = t[j] THEN SubseqFrom(s, t, i + 1, j + 1)
    ELSE SubseqFrom(s, t, i, j + 1)

IsSubseq(s, t) == SubseqFrom(s, t, 1, 1)

\* the position after the move is really made: the mover stands on c, its
\* origin cell is empty, whatever stood on c is off the board
MoveMade(st, self, c) ==
    [board |-> [st.board EXCEPT ![st.cell[self]] = None, ![c] = self],
     cell  |-> [st.cell EXCEPT ![self] = c]]

\* every row r mirrored to 7 - r and every piece recoloured
Mirror(st) ==
    [board |-> [c \in Cells |->
                  IF st.board[<<7 - c[1], c[2]>>] = None THEN None
                  ELSE Twin(st.board[<<7 - c[1], c[2]>>])],
     cell  |-> [p \in Pieces |->
                  IF st.cell[Twin(p)] = NoCell THEN NoCell
                  ELSE <<7 - st.cell[Twin(p)][1], st.cell[Twin(p)][2]>>]]

(***************************************************************************)
(* C1.  get_valid_cells leaves the board as it found it.                   *)
(***************************************************************************)
\* C1: after get_valid_cells returns, the occupant of every cell and the
\* tracked position of every piece are what they were before the call.
C1_ValidCellsRestoresBoard ==
    ret.op = "valid" => board = ret.before.board /\ cell = ret.before.cell

\* a call that tested a capture, rejected a candidate and accepted another
C1_Witness ==
    /\ ret.op = "valid"
    /\ LET reach == get_reachable_cells(ret.before, ret.self) IN
        /\ \E i \in 1..Len(reach) : ret.before.board[reach[i]] # None
        /\ Len(ret.cells) > 0
        /\ Len(ret.cells) < Len(reach)

(***************************************************************************)
(* C2.  Legal = reachable and the own king not attacked after the move.    *)
(***************************************************************************)
\* C2: get_valid_cells returns a reachable cell c exactly when, in the
\* position where the move is made (mover on c, origin empty, occupant of c
\* removed), no enemy piece reaches the cell of the mover's king.
C2_LegalIffKingSafeAfterMove ==
    ret.op = "valid" =>
        \A c \in SeqSet(get_reachable_cells(ret.before, ret.self)) :
            InSeq(c, ret.cells)
                <=> ~is_king_check_cached(MoveMade(ret.before, ret.self, c),
                                          is_white(ret.self))

(***************************************************************************)
(* C3.  The legal cells are a subsequence of the reachable cells.          *)
(***************************************************************************)
\* C3: the list get_valid_cells returns is the list get_reachable_cells
\* returns on the same board with some cells left out, the order kept.
C3_ValidIsSubsequenceOfReachable ==
    ret.op = "valid" =>
        IsSubseq(ret.cells, get_reachable_cells(ret.before, ret.self))

\* a call that kept at least two cells and dropped at least one
C3_Witness ==
    /\ ret.op = "valid"
    /\ Len(ret.cells) >= 2
    /\ Len(ret.cells) < Len(get_reachable_cells(ret.before, ret.self))

(***************************************************************************)
(* C4.  Rays of the Rook, the Bishop and the Queen.                        *)
(***************************************************************************)
Dirs(kind) ==
    CASE kind = "Rook"   -> {<<1, 0>>, <<-1, 0>>, <<0, 1>>, <<0, -1>>}
      [] kind = "Bishop" -> {<<1, 1>>, <<1, -1>>, <<-1, 1>>, <<-1, -1>>}
      [] kind = "Queen"  -> {<<1, 0>>, <<-1, 0>>, <<0, 1>>, <<0, -1>>,
                             <<1, 1>>, <<1, -1>>, <<-1, 1>>, <<-1, -1>>}
      [] OTHER -> {}

Step(from, d, k) == <<from[1] + k * d[1], from[2] + k * d[2]>>

\* the on-board cells k steps along a direction with every cell before them
\* empty, themselves empty or holding an enemy
RayCellsAlong(st, self, d) ==
    {Step(st.cell[self], d, k) :
        k \in {k \in 1..7 :
                 /\ Step(st.cell[self], d, k) \in Cells
                 /\ \A j \in 1..(k - 1) : st.board[Step(st.cell[self], d, j)] = None
                 /\ \/ st.board[Step(st.cell[self], d, k)] = None
                    \/ Enemy(st, self, Step(st.cell[self], d, k))}}

RayCells(st, self) == UNION {RayCellsAlong(st, self, d) : d \in Dirs(KindOf(self))}

\* C4: for a Rook, a Bishop and a Queen, get_reachable_cells returns, along
\* each of the piece's directions, exactly the consecutive empty cells next to
\* the piece plus the first occupied cell iff it holds an enemy, each once; no
\* cell beyond the first occupied cell of a direction.
C4_SliderRays ==
    (ret.op = "reachable" /\ KindOf(ret.self) \in {"Rook", "Bishop", "Queen"}) =>
        /\ SeqSet(ret.cells) = RayCells(ret.before, ret.self)
        /\ Len(ret.cells) = Cardinality(SeqSet(ret.cells))

\* white Rook at (0,0), black Pawn at (0,5): (0,1)..(0,5) in, (0,6), (0,7) out
C4_Witness ==
    /\ ret.op = "reachable"
    /\ ret.self = 3
    /\ ret.before.cell[3] = <<0, 0>>
    /\ ret.before.board[<<0, 5>>] = 12
    /\ \A k \in 1..5 : InSeq(<<0, k>>, ret.cells)
    /\ ~InSeq(<<0, 6>>, ret.cells)
    /\ ~InSeq(<<0, 7>>, ret.cells)

(***************************************************************************)
(* C5.  The Pawn.                                                          *)
(***************************************************************************)
PawnCells(st, self) ==
    LET row  == st.cell[self][1]
        col  == st.cell[self][2]
        fwd  == IF is_white(self) THEN 1 ELSE -1
        home == IF is_white(self) THEN 1 ELSE 6
        one  == <<row + fwd, col>>
    IN  {c \in Cells :
            \/ c = one /\ st.board[c] = None
            \/ /\ row = home
               /\ c = <<row + 2 * fwd, col>>
               /\ st.board[one] = None
               /\ st.board[c] = None
            \/ /\ c[1] = row + fwd
               /\ c[2] \in {col - 1, col + 1}
               /\ Enemy(st, self, c)}

\* C5: for a Pawn, get_reachable_cells returns exactly the cell one step ahead
\* iff on-board and empty, the cell two steps ahead iff the pawn is on its
\* home rank and both cells ahead are empty, and each forward-diagonal cell
\* iff on-board and holding an enemy.
C5_PawnCells ==
    (ret.op = "reachable" /\ KindOf(ret.self) = "Pawn") =>
        /\ SeqSet(ret.cells) = PawnCells(ret.before, ret.self)
        /\ Len(ret.cells) = Cardinality(SeqSet(ret.cells))

\* a white pawn on its home rank that steps one, steps two and captures
C5_Witness ==
    /\ ret.op = "reachable"
    /\ ret.self = 6
    /\ ret.before.cell[6] = <<1, 3>>
    /\ SeqSet(ret.cells) = {<<2, 3>>, <<3, 3>>, <<2, 4>>}

(***************************************************************************)
(* C6.  The Knight and the King.                                           *)
(***************************************************************************)
Abs(n) == IF n < 0 THEN -n ELSE n

\* the eight (+-1,+-2)/(+-2,+-1) offsets of the Knight, the eight unit
\* offsets of the King
JumpOffsets(kind) ==
    IF kind = "Knight"
    THEN {d \in (-2..2) \X (-2..2) : {Abs(d[1]), Abs(d[2])} = {1, 2}}
    ELSE {d \in (-1..1) \X (-1..1) : d # <<0, 0>>}

Destinations(st, self) ==
    {Step(st.cell[self], d, 1) : d \in JumpOffsets(KindOf(self))} \cap Cells

\* the position with the occupant of one cell replaced
Occupied(st, x, piece) == [st EXCEPT !.board[x] = piece]

\* the cells around the piece that are not destinations, and every occupied
\* cell that is not a destination
OtherCells(st, self) ==
    {x \in Cells :
        \/ st.board[x] # None
        \/ Abs(x[1] - st.cell[self][1]) <= 2 /\ Abs(x[2] - st.cell[self][2]) <= 2}
    \ (Destinations(st, self) \cup {st.cell[self]})

\* C6: for a Knight and a King, get_reachable_cells returns exactly the cells
\* at the piece's eight offsets that are on-board and empty or enemy-occupied,
\* each once, and returns the same list when the occupant of any other cell
\* is removed or replaced by a pawn of either colour.
C6_KnightKingCells ==
    (ret.op = "reachable" /\ KindOf(ret.self) \in {"Knight", "King"}) =>
        /\ SeqSet(ret.cells)
             = {c \in Destinations(ret.before, ret.self) :
                    ret.before.board[c] = None \/ Enemy(ret.before, ret.self, c)}
        /\ Len(ret.cells) = Cardinality(SeqSet(ret.cells))
        /\ \A x \in OtherCells(ret.before, ret.self) : \A piece \in {None, 6, 12} :
               get_reachable_cells(Occupied(ret.before, x, piece), ret.self) = ret.cells

\* a King alone at (4,4) gets its 8 neighbours
C6_Witness ==
    /\ ret.op = "reachable"
    /\ ret.self = 1
    /\ ret.before.cell[1] = <<4, 4>>
    /\ \A c \in Cells : c # <<4, 4>> => ret.before.board[c] = None
    /\ SeqSet(ret.cells) = {c \in Cells : Abs(c[1] - 4) <= 1 /\ Abs(c[2] - 4) <= 1} \ {<<4, 4>>}

(***************************************************************************)
(* C7.  The Queen is a Rook and a Bishop.                                  *)
(***************************************************************************)
\* the position with the piece standing where self stands, in place of self
Instead(st, self, piece) ==
    [board |-> [st.board EXCEPT ![st.cell[self]] = piece],
     cell  |-> [st.cell EXCEPT ![piece] = st.cell[self]]]

\* the Rook (by = 1) or the Bishop (by = 2) of the colour of the queen self
Beside(self, by) == self + by

\* C7: the set of cells Queen.get_reachable_cells returns is the union of the
\* sets a Rook and a Bishop of the same colour on the same cell of the same
\* board return, and these two sets are disjoint.
C7_QueenIsRookAndBishop ==
    (ret.op = "reachable" /\ KindOf(ret.self) = "Queen") =>
        LET rook   == Beside(ret.self, 1)
            bishop == Beside(ret.self, 2)
            R == SeqSet(Rook_get_reachable_cells(Instead(ret.before, ret.self, rook), rook))
            B == SeqSet(Bishop_get_reachable_cells(Instead(ret.before, ret.self, bishop),
                                                   bishop))
        IN  /\ SeqSet(ret.cells) = R \cup B
            /\ R \cap B = {}

\* a queen whose rook part and bishop part both capture
C7_Witness ==
    /\ ret.op = "reachable"
    /\ KindOf(ret.self) = "Queen"
    /\ \E c, d \in SeqSet(ret.cells) :
        /\ ret.before.board[c] # None
        /\ ret.before.board[d] # None
        /\ c[1] = ret.before.cell[ret.self][1]
        /\ d[1] # ret.before.cell[ret.self][1]
        /\ d[2] # ret.before.cell[ret.self][2]

(***************************************************************************)
(* C8.  Colour symmetry of evaluate.                                       *)
(***************************************************************************)
\* C8: the score of a piece, in either mode, equals the score of the piece of
\* the same kind and the opposite colour on the board with every row r
\* mirrored to 7 - r and every piece recoloured.
C8_EvaluateColourSymmetric ==
    ret.op = "evaluate" =>
        ret.score = evaluate(Mirror(ret.before), Twin(ret.self), ret.ai_mode).score

(***************************************************************************)
(* C9.  The tactical term.                                                 *)
(***************************************************************************)
TenthsOf(kind) ==
    CASE kind = "Pawn" -> 1
      [] kind = "Knight" -> 3
      [] kind = "Bishop" -> 3
      [] kind = "Rook" -> 5
      [] kind = "Queen" -> 9
      [] kind = "King" -> 12

\* score plus value/10 for every enemy-occupied cell of the list, from cell i on
RECURSIVE PlusTenths(_, _, _, _, _)
PlusTenths(st, self, cells, i, score) ==
    IF i > Len(cells) THEN score
    ELSE IF Enemy(st, self, cells[i])
         THEN PlusTenths(st, self, cells, i + 1,
                         FAdd(score, FDiv(TenthsOf(KindOf(st.board[cells[i]])), 10)))
         ELSE PlusTenths(st, self, cells, i + 1, score)

BaseValue(self) ==
    CASE KindOf(self) = "Pawn" -> 1
      [] KindOf(self) \in {"Knight", "Bishop"} -> 3
      [] KindOf(self) = "Rook" -> 5
      [] KindOf(self) = "Queen" -> 9
      [] KindOf(self) = "King" -> 999999

\* C9: in extended mode the score before the position factor is the base
\* value plus, for every cell get_valid_cells returns that holds an enemy, a
\* tenth of the occupant's value (Pawn 1, Knight 3, Bishop 3, Rook 5, Queen 9,
\* King 12), added in the order of the list; nothing else is added.
C9_TacticalTerm ==
    (ret.op = "evaluate" /\ ret.ai_mode /\ KindOf(ret.self) \in SeqSet(Kinds)) =>
        ret.pre = PlusTenths(ret.before, ret.self,
                             get_valid_cells(ret.before, ret.self).valid_cells,
                             1, FromInt(BaseValue(ret.self)))

\* an extended evaluation with a legal capture, a legal empty cell and a
\* capture that is reachable but not legal
C9_Witness ==
    /\ ret.op = "evaluate"
    /\ ret.ai_mode
    /\ LET legal == SeqSet(get_valid_cells(ret.before, ret.self).valid_cells)
           reach == SeqSet(get_reachable_cells(ret.before, ret.self))
       IN  /\ \E c \in legal : ret.before.board[c] # None
           /\ \E c \in legal : ret.before.board[c] = None
           /\ \E c \in reach \ legal : ret.before.board[c] # None

(***************************************************************************)
(* C10.  The centrality factor.                                            *)
(***************************************************************************)
Least(S) == CHOOSE n \in S : \A m \in S : n <= m

\* 0.91 on the edge, 0.94, 0.97 and 1.0 one, two and three cells from it; 1.0
\* for a King; in hundredths
Centrality(kind, row, col) ==
    IF kind = "King" THEN 100
    ELSE 91 + 3 * Least({row, 7 - row, col, 7 - col})

\* C10: in extended mode the score returned is the base value plus the
\* tactical term, multiplied by 0.91, 0.94, 0.97 or 1.0 by the piece's
\* position, and by 1.0 for a King.
C10_CentralityFactor ==
    (ret.op = "evaluate" /\ ret.ai_mode /\ KindOf(ret.self) \in SeqSet(Kinds)) =>
        LET at == ret.before.cell[ret.self]
            f  == Centrality(KindOf(ret.self), at[1], at[2])
        IN  ret.score = (IF f = 100 THEN ret.pre ELSE FMul(ret.pre, FDiv(f, 100)))

\* an extended evaluation of a piece off the centre with a tactical term
C10_Witness ==
    /\ ret.op = "evaluate"
    /\ ret.ai_mode
    /\ KindOf(ret.self) \in {"Queen", "Rook", "Bishop", "Knight", "Pawn"}
    /\ ret.before.cell[ret.self][1] \in {0, 1, 2, 5, 6, 7}
    /\ ret.pre # FromInt(BaseValue(ret.self))
    /\ ret.score # ret.pre

(***************************************************************************)
(* C11.  Simple mode.                                                      *)
(***************************************************************************)
Unchanged == board = ret.before.board /\ cell = ret.before.cell

\* C11: evaluate(ai_mode = False) of a piece of one of the six kinds returns
\* the base value of the kind (Pawn 1, Knight 3, Bishop 3, Rook 5, Queen 9,
\* King 999999) whatever the position, colour and occupancy, calls neither
\* get_valid_cells nor the board and leaves the board as it was.
C11_SimpleModeIsBaseValue ==
    (ret.call = "evaluate" /\ ~ret.ai_mode /\ KindOf(ret.self) \in SeqSet(Kinds)) =>
        /\ ret.op = "evaluate"
        /\ ret.score = FromInt(BaseValue(ret.self))
        /\ ret.calls = 0
        /\ Unchanged

\* a simple evaluation of a piece off the centre that could capture
C11_Witness ==
    /\ ret.op = "evaluate"
    /\ ~ret.ai_mode
    /\ KindOf(ret.self) \in {"Queen", "Rook", "Bishop", "Knight", "Pawn"}
    /\ ret.before.cell[ret.self] # NoCell
    /\ ret.before.cell[ret.self][1] \in {0, 1, 2, 5, 6, 7}
    /\ \E c \in SeqSet(get_reachable_cells(ret.before, ret.self)) :
           ret.before.board[c] # None

(***************************************************************************)
(* C12.  A piece without a position.                                       *)
(***************************************************************************)
\* C12: get_reachable_cells and get_valid_cells of a piece whose position is
\* unset, and evaluate(ai_mode = True) of such a piece of one of the six
\* kinds, raise instead of returning, and leave the board and every tracked
\* position as they were.
C12_UnsetPositionRaises ==
    (/\ ret.call # "none"
     /\ ret.before.cell[ret.self] = NoCell
     /\ \/ ret.call \in {"reachable", "valid"}
        \/ ret.call = "evaluate" /\ ret.ai_mode /\ KindOf(ret.self) \in SeqSet(Kinds)) =>
        /\ ret.op = "raised"
        /\ ret.raised # ""
        /\ Unchanged

\* get_valid_cells of an unplaced piece raised while a piece stood on the board
C12_Witness ==
    /\ ret.op = "raised"
    /\ ret.call = "valid"
    /\ KindOf(ret.self) \in SeqSet(Kinds)
    /\ \E c \in Cells : board[c] # None

(***************************************************************************)
(* C13.  A piece of no known kind.                                         *)
(***************************************************************************)
\* C13: evaluate of a piece that is none of the six kinds returns 0 in both
\* modes, as a normal result, and calls neither get_valid_cells nor the board.
C13_UnknownKindScoresZero ==
    (ret.call = "evaluate" /\ KindOf(ret.self) \notin SeqSet(Kinds)) =>
        /\ ret.op = "evaluate"
        /\ ret.score = FromInt(0)
        /\ ret.calls = 0
        /\ Unchanged

\* an extended evaluation of a base-class piece returned while a piece stood
\* on the board
C13_Witness ==
    /\ ret.op = "evaluate"
    /\ ret.ai_mode
    /\ KindOf(ret.self) = "Piece"
    /\ \E c \in Cells : board[c] # None

(***************************************************************************)
(* C16.  Sanity of the reachable cells.                                    *)
(***************************************************************************)
\* C16: every cell get_reachable_cells returns has row and column in 0..7,
\* is not the piece's own cell, is empty or holds a piece of the other
\* colour, and appears once in the list.
C16_ReachableCellsSane ==
    ret.op = "reachable" =>
        /\ \A i \in 1..Len(ret.cells) :
            /\ ret.cells[i][1] \in 0..7
            /\ ret.cells[i][2] \in 0..7
            /\ ret.cells[i] # ret.before.cell[ret.self]
            /\ \/ ret.before.board[ret.cells[i]] = None
               \/ is_white(ret.before.board[ret.cells[i]]) # is_white(ret.self)
        /\ \A i, j \in 1..Len(ret.cells) : ret.cells[i] = ret.cells[j] => i = j

\* the white Rook on the edge at (0,3), the white King at (0,0) and a black
\* piece at (0,5) on its row: (0,1) and (0,5) returned, (0,0) not
C16_Witness ==
    /\ ret.op = "reachable"
    /\ ret.self = 3
    /\ ret.before.cell[3] = <<0, 3>>
    /\ ret.before.board[<<0, 0>>] = 1
    /\ Enemy(ret.before, 3, <<0, 5>>)
    /\ InSeq(<<0, 1>>, ret.cells)
    /\ InSeq(<<0, 5>>, ret.cells)
    /\ ~InSeq(<<0, 0>>, ret.cells)

(***************************************************************************)
(* C14, C15, C17.  The simulation inside get_valid_cells, step by step.    *)
(***************************************************************************)
\* the call of caller t runs on a board no other call has been working on
Alone(t) == frame[t].self # None /\ ~run.overlapped

\* C14: at every check query of a get_valid_cells call the mover stands on
\* the candidate cell and its origin cell is empty, so the mover is on exactly
\* one cell of the board.
C14_MoverOnCandidateOnly ==
    \A t \in Callers :
        (Alone(t) /\ frame[t].pc = "check") =>
            /\ board[Candidate(t)] = frame[t].self
            /\ board[frame[t].og_cell] = None

\* C15: within one get_valid_cells call, at the start of every iteration (and
\* when the loop ends) the board and the tracked positions equal the state before
\* the call; at each check query the state differs from it only by the
\* candidate move under test; and the check evaluator has been queried once
\* for every candidate handled, so once per reachable cell at the return.
C15_RestoredAfterEveryCandidate ==
    \A t \in Callers :
        Alone(t) =>
            /\ frame[t].pc = "loop" =>
                /\ Now = frame[t].before
                /\ frame[t].checks = frame[t].i - 1
            /\ frame[t].pc = "check" =>
                /\ board = [frame[t].before.board
                              EXCEPT ![Candidate(t)] = frame[t].self,
                                     ![frame[t].og_cell] = board[frame[t].og_cell]]
                /\ cell = [frame[t].before.cell
                              EXCEPT ![frame[t].self] = Candidate(t)]
                /\ frame[t].checks = frame[t].i - 1
            /\ frame[t].pc = "done" =>
                frame[t].checks = Len(frame[t].reachable_cells)

\* the white Queen's call, alone on the board, has tested the capture of the
\* black Rook on (4,0) and stands at the start of the next iteration
C15_Witness ==
    \E t \in Callers :
        /\ Alone(t)
        /\ frame[t].self = 2
        /\ frame[t].pc = "loop"
        /\ frame[t].i > 1
        /\ frame[t].i <= Len(frame[t].reachable_cells)
        /\ frame[t].reachable_cells[frame[t].i - 1] = <<4, 0>>
        /\ frame[t].before.board[<<4, 0>>] = 9

\* both callers' get_valid_cells calls have returned
BothReturned == \A t \in Callers : frame[t].pc = "done"

\* C17: two get_valid_cells calls for two different pieces on one board can
\* leave the board or the tracked positions different from what they were
\* before the first, and only when the calls interleave: calls that run one
\* after the other never do.
C17_OnlyInterleavedCallsCorrupt ==
    (BothReturned /\ Now # run.before) => run.overlapped

\* two calls have both returned and a cell of the board or a tracked
\* position is not what it was before the first
C17_Witness ==
    /\ BothReturned
    /\ frame["a"].self # frame["b"].self
    /\ \/ board # run.before.board
       \/ cell # run.before.cell

\* two calls ran one after the other on the board with the black Rook on
\* (4,0), and both have returned
C17_SequentialRun ==
    /\ BothReturned
    /\ ~run.overlapped
    /\ run.before.board[<<4, 0>>] = 9

====
